---- MODULE Spec2Model ----
(***************************************************************************)
(* DeepSeek-OCR vLLM server (docker/start_server.py, docker/custom_config.py)*)
(*                                                                         *)
(* The FastAPI application runs in one uvicorn worker (workers=1): every   *)
(* "async def" handler runs on the single event-loop thread, and only an   *)
(* "await" lets another handler run.  process_single_image and             *)
(* pdf_to_images_high_quality are plain synchronous functions.             *)
(*                                                                         *)
(* Strings are sequences of one-character strings, so that strip(),        *)
(* lower(), endswith(), replace() and f-string formatting are computed.    *)
(* Optional[...] values are records: None, or Some(v).                     *)
(* Floats (temperature, top_p) are held in hundredths.                     *)
(***************************************************************************)
EXTENDS Integers, Sequences, FiniteSets, TLC

\* ------------------------------------------------------------------ bounds
NumRequests == 2          \* HTTP requests handled by the process
MaxPages == 2             \* pages of an uploaded document
MaxFiles == 2             \* files of one /ocr/batch upload
MaxBatchPages == 1        \* pages of a document uploaded to /ocr/batch
MaxEnvBelowZero == 1      \* the environment sets MAX_CONCURRENCY down to -MaxEnvBelowZero
MaxEnvConcurrency == 2    \* largest MAX_CONCURRENCY the environment sets

Req == 1..NumRequests

\* ---------------------------------------------------------------- Optional
None == [isNone |-> TRUE]
Some(v) == [isNone |-> FALSE, val |-> v]

\* ----------------------------------------------------------------- strings
\* custom_config.py: PROMPT
PROMPT == <<"<", "i", "m", "a", "g", "e", ">", "\n", "<", "|", "g", "r", "o", "u", "n", "d", "i", "n", "g", "|", ">", "C", "o", "n", "v", "e", "r", "t", " ", "t", "h", "e", " ", "d", "o", "c", "u", "m", "e", "n", "t", " ", "t", "o", " ", "m", "a", "r", "k", "d", "o", "w", "n", ".">>

\* process_batch_endpoint: prompt: Optional[str] = Form('<image>')
BatchPromptDefault == <<"<", "i", "m", "a", "g", "e", ">">>

\* process_single_image: RuntimeError("No output generated from model")
NoOutputMsg == <<"N", "o", " ", "o", "u", "t", "p", "u", "t", " ", "g", "e", "n", "e", "r", "a", "t", "e", "d", " ", "f", "r", "o", "m", " ", "m", "o", "d", "e", "l">>

\* str(e) of the AttributeError that reading an attribute of a None base raises
NoneTypeMsg(attribute) ==
    <<"'", "N", "o", "n", "e", "T", "y", "p", "e", "'", " ", "o", "b", "j", "e", "c", "t", " ", "h", "a", "s", " ", "n", "o", " ", "a", "t", "t", "r", "i", "b", "u", "t", "e", " ", "'">>
        \o attribute \o <<"'">>

\* the end-of-sentence token of the model output, one symbol
EOS == "<|end_of_sentence|>"

\* str.strip() strips these 29 code points; one that a string of this module
\* cannot hold is written as the symbol naming it
Whitespace ==
    { "\t", "\n", "U+000B", "\f", "\r", "U+001C", "U+001D", "U+001E", "U+001F", " ",
      "U+0085", "U+00A0", "U+1680",
      "U+2000", "U+2001", "U+2002", "U+2003", "U+2004", "U+2005", "U+2006", "U+2007",
      "U+2008", "U+2009", "U+200A",
      "U+2028", "U+2029", "U+202F", "U+205F", "U+3000" }

RECURSIVE LStrip(_)
LStrip(s) == IF s # <<>> /\ Head(s) \in Whitespace THEN LStrip(Tail(s)) ELSE s

RECURSIVE RStrip(_)
RStrip(s) ==
    IF s # <<>> /\ s[Len(s)] \in Whitespace THEN RStrip(SubSeq(s, 1, Len(s) - 1)) ELSE s

\* str.strip()
Strip(s) == RStrip(LStrip(s))

\* str.lower() on ASCII, the alphabet of the file names
UpperCase == <<"A", "B", "C", "D", "E", "F", "G", "H", "I", "J", "K", "L", "M",
               "N", "O", "P", "Q", "R", "S", "T", "U", "V", "W", "X", "Y", "Z">>
LowerCase == <<"a", "b", "c", "d", "e", "f", "g", "h", "i", "j", "k", "l", "m",
               "n", "o", "p", "q", "r", "s", "t", "u", "v", "w", "x", "y", "z">>

LowerChar(c) ==
    IF \E i \in 1..Len(UpperCase) : UpperCase[i] = c
    THEN LowerCase[CHOOSE i \in 1..Len(UpperCase) : UpperCase[i] = c]
    ELSE c

Lower(s) == [i \in 1..Len(s) |-> LowerChar(s[i])]

\* str.endswith(suffix)
EndsWith(s, suffix) ==
    /\ Len(s) >= Len(suffix)
    /\ SubSeq(s, Len(s) - Len(suffix) + 1, Len(s)) = suffix

\* str(n) for n >= 0
Digit(d) == <<"0", "1", "2", "3", "4", "5", "6", "7", "8", "9">>[d + 1]

RECURSIVE IntToStr(_)
IntToStr(n) == IF n < 10 THEN <<Digit(n)>> ELSE IntToStr(n \div 10) \o <<Digit(n % 10)>>

\* result.replace('<|end_of_sentence|>', '')
RemoveEos(text) == SelectSeq(text, LAMBDA c : c # EOS)

\* ------------------------------------------------------------ input alphabets
\* values of the prompt form field: absent, blank, and non-blank ones
PromptInputs ==
    { None,
      Some(<<" ">>),
      Some(<<" ", "\n">>),
      Some(<<"q">>),
      Some(<<" ", "q", " ">>),
      Some(<<>>),
      Some(<<"\f", " ">>) }

\* uploaded file names
FileNames == { <<"a", ".", "P", "D", "F">>, <<"b", ".", "p", "n", "g">> }

\* messages of the exceptions the libraries (fitz, PIL, vLLM) raise
DecodeMsgs == { <<"b", "a", "d">> }
EngineMsgs == { <<"o", "o", "m">> }

\* texts the engine generates
Texts == { <<"o", "k", EOS>> }

\* what llm.generate does: returns a text, returns no output, or raises
EngineOutcomes ==
    [kind : {"text"}, v : Texts] \cup
    [kind : {"empty"}, v : {<<>>}] \cup
    [kind : {"raise"}, v : EngineMsgs]

\* values of the sampling form fields (temperature and top_p in hundredths)
OverrideInputs ==
    { [temperature |-> None, top_p |-> None, max_tokens |-> None],
      [temperature |-> Some(500), top_p |-> None, max_tokens |-> Some(0)] }

\* what DeepseekOCRProcessor().tokenize_with_images(prompt=, images=, bos=,
\* eos=, cropping=) does: with the process.image_process of the DeepSeek-OCR
\* checkout it returns the image input; with custom_image_process.py in its
\* place the constructor loads an LLM of its own (_load_model), which raises
\* what LLM(...) raises, and then the call raises TypeError, the method
\* taking prompt and images only
TokenizeMsg == <<"D", "e", "e", "p", "s", "e", "e", "k", "O", "C", "R", "P", "r", "o", "c", "e", "s", "s", "o", "r", ".", "t", "o", "k", "e", "n", "i", "z", "e", "_", "w", "i", "t", "h", "_", "i", "m", "a", "g", "e", "s", "(", ")", " ", "g", "o", "t", " ", "a", "n", " ", "u", "n", "e", "x", "p", "e", "c", "t", "e", "d", " ", "k", "e", "y", "w", "o", "r", "d", " ", "a", "r", "g", "u", "m", "e", "n", "t", " ", "'", "b", "o", "s", "'">>
LoadMsgs == { <<"l", "o", "a", "d">> }
TokenizeOutcomes ==
    { [kind |-> "returns", loads |-> FALSE, msg |-> <<>>],
      [kind |-> "raises", loads |-> TRUE, msg |-> TokenizeMsg] } \cup
    [kind : {"load_raises"}, loads : {TRUE}, msg : LoadMsgs]

\* what await file.read() raises
ReadMsgs == { <<"i", "o">> }

\* what tempfile.NamedTemporaryFile(...) raises
CreateMsgs == { <<"n", "o", "d", "i", "r">> }

\* what writing the uploaded bytes to the temporary file raises
WriteMsgs == { <<"f", "u", "l", "l">> }

\* what initialize_model meets: success, LLM(...) raising, or the sampling
\* set-up after it (the ngram import, SamplingParams(...)) raising
InitOutcomes == {"ok", "engine_raises", "sampling_raises"}
InitFailedMsg == <<"i", "n", "i", "t">>

\* ------------------------------------------------------------------- state
VARIABLES
    MAX_CONCURRENCY,   \* config.MAX_CONCURRENCY as loaded from the environment
    llm,               \* global llm: None or Some(engine)
    sampling_params,   \* global sampling_params: None or Some(base)
    phase,             \* uvicorn lifecycle: "boot", "serving", "failed"
    loop,              \* the handler running on the event-loop thread, 0 if none
    pc,                \* position of each handler
    req,               \* the HTTP request each handler serves
    batch,             \* locals of process_batch_endpoint
    frame,             \* locals of the running process_image/pdf_endpoint
    ret,               \* what that endpoint returned
    resp,              \* the HTTP response body
    inFlight,          \* llm.generate calls entered and not yet left
    log,               \* history: the process_single_image calls of the frame
    direct             \* the last call of a module function made from outside
                       \* the handlers, and how it ended

vars == <<MAX_CONCURRENCY, llm, sampling_params, phase, loop, pc, req, batch,
          frame, ret, resp, inFlight, log, direct>>

\* -------------------------------------------------------- response models
OCRResponse(success, result, error, page_count) ==
    [success |-> success, result |-> result, error |-> error, page_count |-> page_count]

BatchOCRResponse(success, results, total_pages, filename) ==
    [success |-> success, results |-> results, total_pages |-> total_pages,
     filename |-> filename]

\* ------------------------------------------------------ sampling parameters
\* initialize_model: SamplingParams(temperature=0.1, top_p=0.95, max_tokens=1500, ...)
BaseSamplingParams ==
    [obj |-> "base", temperature |-> 10, top_p |-> 95, max_tokens |-> 1500,
     skip_special_tokens |-> FALSE, include_stop_str_in_output |-> TRUE,
     stop |-> <<>>, logits_processors |-> <<"NoRepeatNGram">>]

Max(a, b) == IF a >= b THEN a ELSE b
Min(a, b) == IF a <= b THEN a ELSE b

\* get_sampling_params building the new object without the base's processors
get_sampling_params_bare(base, temperature, top_p, max_tokens) ==
    LET temp0 == IF temperature.isNone THEN base.temperature ELSE temperature.val
        tp0 == IF top_p.isNone THEN base.top_p ELSE top_p.val
        mt0 == IF max_tokens.isNone THEN base.max_tokens ELSE max_tokens.val
        temp == Max(0, Min(200, temp0))
        tp == Max(0, Min(100, tp0))
        mt == Max(1, Min(8192, mt0))
    IN  IF temp = base.temperature /\ tp = base.top_p /\ mt = base.max_tokens
        THEN base
        ELSE [obj |-> "new", temperature |-> temp, top_p |-> tp, max_tokens |-> mt,
              skip_special_tokens |-> base.skip_special_tokens,
              include_stop_str_in_output |-> base.include_stop_str_in_output,
              stop |-> base.stop, logits_processors |-> <<>>]

\* get_sampling_params, from "base = sampling_params" on
get_sampling_params(base, temperature, top_p, max_tokens) ==
    LET temp0 == IF temperature.isNone THEN base.temperature ELSE temperature.val
        tp0 == IF top_p.isNone THEN base.top_p ELSE top_p.val
        mt0 == IF max_tokens.isNone THEN base.max_tokens ELSE max_tokens.val
        temp == Max(0, Min(200, temp0))
        tp == Max(0, Min(100, tp0))
        mt == Max(1, Min(8192, mt0))
    IN  IF temp = base.temperature /\ tp = base.top_p /\ mt = base.max_tokens
        THEN base
        ELSE [obj |-> "new", temperature |-> temp, top_p |-> tp, max_tokens |-> mt,
              skip_special_tokens |-> base.skip_special_tokens,
              include_stop_str_in_output |-> base.include_stop_str_in_output,
              stop |-> base.stop, logits_processors |-> base.logits_processors]

\* str(e) of the ValueError of vLLM's SamplingParams for top_p = 0.0
TopPMsg == <<"t", "o", "p", "_", "p", " ", "m", "u", "s", "t", " ", "b", "e", " ", "i", "n", " ", "(", "0", ",", " ", "1", "]", ",", " ", "g", "o", "t", " ", "0", ".", "0", ".">>

\* what SamplingParams(...) raises for arguments it accepts
ConstructorMsgs == { <<"s", "p">> }

\* SamplingParams(temperature=0.0, ...): vLLM's greedy sampling, which sets
\* top_p to 1.0 on the object it builds
greedy_sampling(sp) == [sp EXCEPT !.top_p = 100]

\* get_sampling_params, its return: the base is returned as it is; the new
\* object is built from sp by SamplingParams(...), which checks its
\* arguments (a top_p outside (0, 1] is a ValueError) and, as in
\* initialize_model, may raise whatever they are. The object holds the
\* arguments; for a temperature of 0.0 it holds them as they were passed or
\* as greedy sampling resets them, by the vLLM installed. raised is None or
\* Some(str(e)), result is None or Some(the object returned).
SamplingParamsOutcomes(sp) ==
    IF sp.obj = "base" THEN {[raised |-> None, result |-> Some(sp)]}
    ELSE IF sp.top_p <= 0 THEN {[raised |-> Some(TopPMsg), result |-> None]}
    ELSE {[raised |-> None, result |-> Some(x)] :
             x \in (IF sp.temperature = 0 THEN {sp, greedy_sampling(sp)} ELSE {sp})}
         \cup {[raised |-> Some(m), result |-> None] : m \in ConstructorMsgs}

\* the outcome of a call that does not reach the return of get_sampling_params
NoOutcome == [raised |-> None, result |-> None]

\* get_sampling_params, from "base = sampling_params" on, with base None: the
\* first attribute of base that is read, at lines 83-85 for an argument left
\* out, else in the comparison at line 94
none_base_attribute(temperature, top_p, max_tokens) ==
    IF temperature.isNone THEN <<"t", "e", "m", "p", "e", "r", "a", "t", "u", "r", "e">>
    ELSE IF top_p.isNone THEN <<"t", "o", "p", "_", "p">>
    ELSE IF max_tokens.isNone THEN <<"m", "a", "x", "_", "t", "o", "k", "e", "n", "s">>
    ELSE <<"t", "e", "m", "p", "e", "r", "a", "t", "u", "r", "e">>

\* initialize_model(): the globals after the call, under outcome o
llm_after_init(o) ==
    IF llm.isNone /\ o # "engine_raises" THEN Some("engine") ELSE llm

sampling_params_after_init(o) ==
    IF llm.isNone /\ o = "ok" THEN Some(BaseSamplingParams) ELSE sampling_params

\* initialize_model() raises
init_raises(o) == llm.isNone /\ o # "ok"

initialize_model(o) ==
    /\ llm' = llm_after_init(o)
    /\ sampling_params' = sampling_params_after_init(o)

\* ------------------------------------------- the module functions, called
\* the arguments a caller passes (temperature and top_p in hundredths): left
\* out, below the range, on its ends, inside it, the base's value, above it
TemperatureArgs == {None} \cup {Some(v) : v \in {-100, 0, 10, 150, 200, 500}}
TopPArgs == {None} \cup {Some(v) : v \in {-100, 0, 50, 95, 100, 300}}
MaxTokensArgs == {None} \cup {Some(v) : v \in {-5, 0, 1, 1500, 8192, 8193}}

SamplingArgs == [temperature : TemperatureArgs, top_p : TopPArgs, max_tokens : MaxTokensArgs]

NoArgs == [temperature |-> None, top_p |-> None, max_tokens |-> None]

NoCall == [fn |-> "none", args |-> NoArgs, raised |-> None, result |-> None]

\* initialize_model() called: it returns, or raises what LLM(...) or the
\* sampling set-up raised
InitializeModelCall ==
    /\ \E o \in InitOutcomes :
        /\ initialize_model(o)
        /\ direct' = [fn |-> "initialize_model", args |-> NoArgs,
                      raised |-> IF init_raises(o) THEN Some(InitFailedMsg) ELSE None,
                      result |-> None]
    /\ UNCHANGED <<MAX_CONCURRENCY, phase, loop, pc, req, batch, frame, ret, resp,
                   inFlight, log>>

\* get_sampling_params(temperature, top_p, max_tokens) called: the base is
\* initialized when it is None, then the arguments are resolved against it;
\* a base that is still None raises on base.temperature, and the
\* constructor of the new object may raise
GetSamplingParamsCall ==
    /\ \E a \in SamplingArgs, o \in InitOutcomes :
        /\ IF sampling_params.isNone
           THEN initialize_model(o)
           ELSE UNCHANGED <<llm, sampling_params>>
        /\ \E c \in (IF sampling_params'.isNone THEN {NoOutcome}
                     ELSE SamplingParamsOutcomes(
                              get_sampling_params(sampling_params'.val,
                                  a.temperature, a.top_p, a.max_tokens))) :
           direct' =
              IF sampling_params.isNone /\ init_raises(o)
              THEN [fn |-> "get_sampling_params", args |-> a,
                    raised |-> Some(InitFailedMsg), result |-> None]
              ELSE IF sampling_params'.isNone
              THEN [fn |-> "get_sampling_params", args |-> a,
                    raised |-> Some(NoneTypeMsg(none_base_attribute(
                                        a.temperature, a.top_p, a.max_tokens))),
                    result |-> None]
              ELSE [fn |-> "get_sampling_params", args |-> a,
                    raised |-> c.raised, result |-> c.result]
    /\ UNCHANGED <<MAX_CONCURRENCY, phase, loop, pc, req, batch, frame, ret, resp,
                   inFlight, log>>

\* ------------------------------------------------------------------ prompts
\* use_prompt = prompt if prompt and prompt.strip() else PROMPT
use_prompt_of(prompt) ==
    IF ~prompt.isNone /\ prompt.val # <<>> /\ Strip(prompt.val) # <<>>
    THEN prompt.val
    ELSE PROMPT

\* the default of the prompt form field of each endpoint
FormDefault(endpoint) ==
    IF endpoint = "batch" THEN Some(BatchPromptDefault) ELSE None

\* the handler's prompt parameter: the field sent, else the Form default
\* (the empty value of a field whose default is a string counts as not sent)
bound_prompt(endpoint, sent) ==
    IF sent.isNone \/ (sent.val = <<>> /\ ~FormDefault(endpoint).isNone)
    THEN FormDefault(endpoint)
    ELSE sent

\* file.filename.lower().endswith('.pdf')
is_pdf_name(filename) == EndsWith(Lower(filename), <<".", "p", "d", "f">>)

\* --------------------------------------------------------------- the frame
\* locals of one process_image_endpoint / process_pdf_endpoint invocation
NoFrame ==
    [endpoint |-> "none", filename |-> <<>>, prompt |-> None,
     doc |-> "none",        \* the fitz document: "none", "open", "closed"
     tmp |-> "none",        \* the temporary file: "none", "exists", "unlinked"
     doc_pages |-> 0,       \* pdf_document.page_count
     images |-> 0,          \* len(images)
     use_prompt |-> None, page_num |-> 0, results |-> <<>>]

NewFrame(endpoint, filename, prompt) ==
    [NoFrame EXCEPT !.endpoint = endpoint, !.filename = filename, !.prompt = prompt]

NoBatch == [i |-> 0, results |-> <<>>]

NoReq == [endpoint |-> "none", prompt |-> None, files |-> <<>>,
          overrides |-> [temperature |-> None, top_p |-> None, max_tokens |-> None]]

\* the file lists an endpoint is sent
FileLists(endpoint) ==
    IF endpoint = "batch"
    THEN UNION { [1..n -> FileNames] : n \in 1..MaxFiles }
    ELSE [1..1 -> FileNames]

\* process_batch_endpoint: which endpoint a file goes to
endpoint_of(endpoint, filename) ==
    IF endpoint = "batch"
    THEN (IF is_pdf_name(filename) THEN "pdf" ELSE "image")
    ELSE endpoint

\* the process after the modules are loaded, MAX_CONCURRENCY being mc
InitWith(mc) ==
    /\ MAX_CONCURRENCY = mc
    /\ llm = None
    /\ sampling_params = None
    /\ phase = "boot"
    /\ loop = 0
    /\ pc = [r \in Req |-> "idle"]
    /\ req = [r \in Req |-> NoReq]
    /\ batch = [r \in Req |-> NoBatch]
    /\ frame = [r \in Req |-> NoFrame]
    /\ ret = [r \in Req |-> None]
    /\ resp = [r \in Req |-> None]
    /\ inFlight = 0
    /\ log = [r \in Req |-> <<>>]
    /\ direct = NoCall

\* custom_config.py: MAX_CONCURRENCY = int(os.getenv('MAX_CONCURRENCY', '50'))
DefaultMaxConcurrency == 50

\* the environment does not set MAX_CONCURRENCY
Init == InitWith(DefaultMaxConcurrency)

\* the environment sets MAX_CONCURRENCY: int(os.getenv(...)) takes any
\* integer, and the ValueError of validate_config for a value that is not
\* positive is caught on import and printed
InitEnv == \E mc \in (0 - MaxEnvBelowZero)..MaxEnvConcurrency : InitWith(mc)

\* ------------------------------------------------------------------ startup
\* startup_event: initialize_model(); uvicorn exits when the startup raises
startup_event ==
    /\ phase = "boot"
    /\ \E o \in InitOutcomes :
        /\ initialize_model(o)
        /\ phase' = IF init_raises(o) THEN "failed" ELSE "serving"
    /\ UNCHANGED <<MAX_CONCURRENCY, direct, loop, pc, req, batch, frame, ret, resp, inFlight, log>>

\* ------------------------------------------------------------- the handlers
\* the requests a client may send
HttpRequests ==
    UNION { [endpoint : {e}, prompt : PromptInputs, files : FileLists(e),
             overrides : OverrideInputs] : e \in {"image", "pdf", "batch"} }

\* the requests of the image and pdf endpoints
DirectRequests == { q \in HttpRequests : q.endpoint # "batch" }

\* the requests of the background load: no prompt field, no sampling field
LoadRequests ==
    { q \in HttpRequests : q.prompt = None /\ q.overrides = NoReq.overrides }

\* A request arrives and its handler runs to its first await, file.read():
\* process_image_endpoint and process_pdf_endpoint at once, and
\* process_batch_endpoint inside the endpoint it calls for its first file.
Accept(r, q) ==
    /\ phase = "serving"
    /\ loop = 0
    /\ pc[r] = "idle"
    /\ req' = [req EXCEPT ![r] = q]
    /\ batch' = [batch EXCEPT ![r] =
                    IF q.endpoint = "batch" THEN [i |-> 1, results |-> <<>>] ELSE NoBatch]
    /\ frame' = [frame EXCEPT ![r] =
                    NewFrame(endpoint_of(q.endpoint, q.files[1]), q.files[1],
                             bound_prompt(q.endpoint, q.prompt))]
    /\ pc' = [pc EXCEPT ![r] = "read"]
    /\ log' = [log EXCEPT ![r] = <<>>]
    /\ UNCHANGED <<MAX_CONCURRENCY, direct, llm, sampling_params, phase, loop, ret, resp, inFlight>>

Receive(r) == \E q \in HttpRequests : Accept(r, q)

ReceiveDirect(r) == \E q \in DirectRequests : Accept(r, q)

ReceiveLoad(r) == \E q \in LoadRequests : Accept(r, q)

\* the uploads of the batch endpoint: file lists with no other form field
BatchUploads == { q \in LoadRequests : q.endpoint = "batch" }

ReceiveBatch(r) == \E q \in BatchUploads : Accept(r, q)

\* ----------------------------------------------------- process_pdf_endpoint
\* mutant: the outer handler reports the pages rasterized before the failure
pdf_exception_response_partial(f, m) ==
    BatchOCRResponse(FALSE, <<OCRResponse(FALSE, None, Some(m), None)>>, f.images, f.filename)

\* except Exception as e: the response of the outer handler
pdf_exception_response(f, m) ==
    BatchOCRResponse(FALSE, <<OCRResponse(FALSE, None, Some(m), None)>>, 0, f.filename)

\* mutant: a document without pages is reported as a success
pdf_empty_response_ok(f) == BatchOCRResponse(TRUE, <<>>, 0, f.filename)

\* if not images: the response for a document without pages
pdf_empty_response(f) == BatchOCRResponse(FALSE, <<>>, 0, f.filename)

\* mutant: total_pages counts the pages that succeeded
pdf_success_response_counting(f) ==
    BatchOCRResponse(TRUE, f.results,
                     Len(SelectSeq(f.results, LAMBDA x : x.success)), f.filename)

\* mutant: the batch succeeds only if every page did
pdf_success_response_strict(f) ==
    BatchOCRResponse(\A k \in 1..Len(f.results) : f.results[k].success,
                     f.results, f.images, f.filename)

\* the response after the page loop
pdf_success_response(f) == BatchOCRResponse(TRUE, f.results, f.images, f.filename)

\* the page loop's entry for a page whose process_single_image returned
pdf_page_success(page_num, text) ==
    OCRResponse(TRUE, Some(text), None, Some(page_num + 1))

\* mutant: the message of the exception is left out
pdf_page_error_generic(page_num, m) ==
    <<"P", "a", "g", "e", " ">> \o IntToStr(page_num + 1)
        \o <<" ", "e", "r", "r", "o", "r">>

\* f"Page {page_num + 1} error: {str(e)}"
pdf_page_error(page_num, m) ==
    <<"P", "a", "g", "e", " ">> \o IntToStr(page_num + 1)
        \o <<" ", "e", "r", "r", "o", "r", ":", " ">> \o m

\* mutant: a failed page is numbered from zero
pdf_page_failure_zero_based(page_num, m) ==
    OCRResponse(FALSE, None, Some(pdf_page_error(page_num, m)), Some(page_num))

\* the page loop's entry for a page whose process_single_image raised
pdf_page_failure(page_num, m) ==
    OCRResponse(FALSE, None, Some(pdf_page_error(page_num, m)), Some(page_num + 1))

\* the frame after the loop body ran for page f.page_num with outcome out
pdf_after_page(f, out) ==
    [f EXCEPT !.results = Append(@, IF out.raised
                                    THEN pdf_page_failure(f.page_num, out.v)
                                    ELSE pdf_page_success(f.page_num, out.v)),
              !.page_num = @ + 1]

\* --------------------------------------------------- process_image_endpoint
image_success(text) == OCRResponse(TRUE, Some(text), None, Some(1))
image_failure(m) == OCRResponse(FALSE, None, Some(m), None)

\* await file.read() completes and the handler runs on, or it raises and the
\* endpoint's handler answers the exception
ReadDone(r) ==
    /\ loop = 0
    /\ pc[r] = "read"
    /\ loop' = r
    /\ \/ /\ pc' = [pc EXCEPT ![r] =
                      IF frame[r].endpoint = "pdf" THEN "raster_open" ELSE "decode"]
          /\ ret' = ret
       \/ \E m \in ReadMsgs :
            /\ ret' = [ret EXCEPT ![r] =
                          Some(IF frame[r].endpoint = "pdf"
                               THEN pdf_exception_response(frame[r], m)
                               ELSE image_failure(m))]
            /\ pc' = [pc EXCEPT ![r] = "ret"]
    /\ UNCHANGED <<MAX_CONCURRENCY, direct, llm, sampling_params, phase, req, batch, frame,
                   resp, inFlight, log>>

\* ----------------------------------------------- pdf_to_images_high_quality
\* the largest pdf_document.page_count of the documents a request uploads
PageLimit(r) == IF req[r].endpoint = "batch" THEN MaxBatchPages ELSE MaxPages

\* the temporary file is created and written: the creation raises and there
\* is no file, or the write raises before the try block and the file stays;
\* then fitz.open: it raises (the finally
\* unlinks the file), or gives a document. The endpoint's outer handler
\* answers an exception.
RasterOpen(r) ==
    /\ loop = r
    /\ pc[r] = "raster_open"
    /\ \/ \E m \in CreateMsgs :
            /\ frame' = frame
            /\ ret' = [ret EXCEPT ![r] = Some(pdf_exception_response(frame[r], m))]
            /\ pc' = [pc EXCEPT ![r] = "ret"]
       \/ \E m \in WriteMsgs :
            /\ frame' = [frame EXCEPT ![r].tmp = "exists"]
            /\ ret' = [ret EXCEPT ![r] = Some(pdf_exception_response(frame[r], m))]
            /\ pc' = [pc EXCEPT ![r] = "ret"]
       \/ \E m \in DecodeMsgs :
            /\ frame' = [frame EXCEPT ![r].tmp = "unlinked"]
            /\ ret' = [ret EXCEPT ![r] = Some(pdf_exception_response(frame[r], m))]
            /\ pc' = [pc EXCEPT ![r] = "ret"]
       \/ \E n \in 0..PageLimit(r) :
            /\ frame' = [frame EXCEPT ![r].tmp = "exists", ![r].doc = "open",
                                      ![r].doc_pages = n]
            /\ ret' = ret
            /\ pc' = [pc EXCEPT ![r] = "raster_page"]
    /\ UNCHANGED <<MAX_CONCURRENCY, direct, llm, sampling_params, phase, loop, req, batch,
                   resp, inFlight, log>>

\* one iteration of the page loop: the image is appended, or get_pixmap,
\* tobytes or Image.open raises (the finally unlinks the file; nothing closes
\* the document)
RasterPage(r) ==
    /\ loop = r
    /\ pc[r] = "raster_page"
    /\ frame[r].images < frame[r].doc_pages
    /\ \/ /\ frame' = [frame EXCEPT ![r].images = @ + 1]
          /\ UNCHANGED <<ret, pc>>
       \/ \E m \in DecodeMsgs :
            /\ frame' = [frame EXCEPT ![r].tmp = "unlinked"]
            /\ ret' = [ret EXCEPT ![r] = Some(pdf_exception_response(frame[r], m))]
            /\ pc' = [pc EXCEPT ![r] = "ret"]
    /\ UNCHANGED <<MAX_CONCURRENCY, direct, llm, sampling_params, phase, loop, req, batch,
                   resp, inFlight, log>>

\* after the loop: pdf_document.close(), the finally unlinks, images returned
RasterClose(r) ==
    /\ loop = r
    /\ pc[r] = "raster_page"
    /\ frame[r].images = frame[r].doc_pages
    /\ frame' = [frame EXCEPT ![r].doc = "closed", ![r].tmp = "unlinked"]
    /\ pc' = [pc EXCEPT ![r] = "rastered"]
    /\ UNCHANGED <<MAX_CONCURRENCY, direct, llm, sampling_params, phase, loop, req, batch,
                   ret, resp, inFlight, log>>

\* process_pdf_endpoint after the rasterizer returned: no images, or the
\* prompt is resolved and the page loop starts
PdfAfterRaster(r) ==
    /\ loop = r
    /\ pc[r] = "rastered"
    /\ IF frame[r].images = 0
       THEN /\ ret' = [ret EXCEPT ![r] = Some(pdf_empty_response(frame[r]))]
            /\ pc' = [pc EXCEPT ![r] = "ret"]
            /\ frame' = frame
       ELSE /\ frame' = [frame EXCEPT ![r].use_prompt = Some(use_prompt_of(frame[r].prompt)),
                                      ![r].results = <<>>, ![r].page_num = 0]
            /\ pc' = [pc EXCEPT ![r] = "page"]
            /\ ret' = ret
    /\ UNCHANGED <<MAX_CONCURRENCY, direct, llm, sampling_params, phase, loop, req, batch,
                   resp, inFlight, log>>

\* process_image_endpoint after the read: Image.open(...).convert('RGB')
\* raises, or the prompt is resolved
ImageDecode(r) ==
    /\ loop = r
    /\ pc[r] = "decode"
    /\ \/ \E m \in DecodeMsgs :
            /\ ret' = [ret EXCEPT ![r] = Some(image_failure(m))]
            /\ pc' = [pc EXCEPT ![r] = "ret"]
            /\ frame' = frame
       \/ /\ frame' = [frame EXCEPT ![r].use_prompt = Some(use_prompt_of(frame[r].prompt)),
                                    ![r].images = 1, ![r].page_num = 0]
          /\ pc' = [pc EXCEPT ![r] = "page"]
          /\ ret' = ret
    /\ UNCHANGED <<MAX_CONCURRENCY, direct, llm, sampling_params, phase, loop, req, batch,
                   resp, inFlight, log>>

\* ----------------------------------------------------- process_single_image
\* what process_single_image makes of llm.generate's outcome: the text with
\* the end-of-sentence tokens removed, or an exception
process_single_image_result(o) ==
    CASE o.kind = "text" -> [raised |-> FALSE, v |-> RemoveEos(o.v)]
      [] o.kind = "empty" -> [raised |-> TRUE, v |-> NoOutputMsg]
      [] o.kind = "raise" -> [raised |-> TRUE, v |-> o.v]

\* the caller's code after process_single_image returned or raised:
\* the page loop of process_pdf_endpoint appends and goes on,
\* process_image_endpoint returns its response
after_call(r, out) ==
    IF frame[r].endpoint = "pdf"
    THEN /\ frame' = [frame EXCEPT ![r] = pdf_after_page(frame[r], out)]
         /\ pc' = [pc EXCEPT ![r] = "page"]
         /\ ret' = ret
    ELSE /\ ret' = [ret EXCEPT ![r] =
                      Some(IF out.raised THEN image_failure(out.v) ELSE image_success(out.v))]
         /\ pc' = [pc EXCEPT ![r] = "ret"]
         /\ frame' = frame

\* process_single_image is a plain function called from the async handler:
\* the handler keeps the event loop while llm.generate runs
loop_during_generate(r) == r

\* process_single_image up to the call of llm.generate: the request item is
\* built by DeepseekOCRProcessor().tokenize_with_images, get_sampling_params
\* makes sure the base exists and resolves the overrides, llm.generate is
\* entered; an exception on the way leaves the function at once
ProcessSingleImageCall(r) ==
    /\ loop = r
    /\ pc[r] = "page"
    /\ frame[r].page_num < frame[r].images
    /\ \E t \in TokenizeOutcomes, o \in InitOutcomes :
        /\ IF t.kind = "returns" /\ sampling_params.isNone
           THEN initialize_model(o)
           ELSE UNCHANGED <<llm, sampling_params>>
        /\ \E c \in (IF t.kind # "returns" \/ sampling_params'.isNone THEN {NoOutcome}
                     ELSE SamplingParamsOutcomes(
                              get_sampling_params(sampling_params'.val,
                                  req[r].overrides.temperature,
                                  req[r].overrides.top_p,
                                  req[r].overrides.max_tokens))) :
           LET raised ==
                 IF t.kind # "returns" THEN Some(t.msg)
                 ELSE IF sampling_params.isNone /\ init_raises(o) THEN Some(InitFailedMsg)
                 ELSE IF sampling_params'.isNone
                 THEN Some(NoneTypeMsg(none_base_attribute(req[r].overrides.temperature,
                                                           req[r].overrides.top_p,
                                                           req[r].overrides.max_tokens)))
                 ELSE c.raised
               entry == [page |-> frame[r].page_num, prompt |-> frame[r].use_prompt.val,
                         loads |-> t.loads]
           IN  IF raised.isNone
               THEN /\ inFlight' = inFlight + 1
                    /\ loop' = loop_during_generate(r)
                    /\ pc' = [pc EXCEPT ![r] = "generate"]
                    /\ log' = [log EXCEPT ![r] = Append(@,
                                 [page |-> entry.page, prompt |-> entry.prompt,
                                  sp |-> c.result,
                                  loads |-> entry.loads,
                                  invoked |-> TRUE, status |-> "in_flight", msg |-> <<>>])]
                    /\ UNCHANGED <<frame, ret>>
               ELSE /\ inFlight' = inFlight
                    /\ loop' = loop
                    /\ log' = [log EXCEPT ![r] = Append(@,
                                 [page |-> entry.page, prompt |-> entry.prompt,
                                  sp |-> None, loads |-> entry.loads,
                                  invoked |-> FALSE, status |-> "raised", msg |-> raised.val])]
                    /\ after_call(r, [raised |-> TRUE, v |-> raised.val])
    /\ UNCHANGED <<MAX_CONCURRENCY, direct, phase, req, batch, resp>>

\* llm.generate returns or raises, process_single_image finishes, and the
\* caller handles the outcome
GenerateReturn(r) ==
    /\ loop = r
    /\ pc[r] = "generate"
    /\ inFlight' = inFlight - 1
    /\ \E o \in EngineOutcomes :
        LET out == process_single_image_result(o)
        IN  /\ log' = [log EXCEPT ![r][Len(log[r])].status =
                          IF out.raised THEN "raised" ELSE "returned",
                                  ![r][Len(log[r])].msg = IF out.raised THEN out.v ELSE <<>>]
            /\ after_call(r, out)
    /\ UNCHANGED <<MAX_CONCURRENCY, direct, llm, sampling_params, phase, loop, req, batch, resp>>

\* process_pdf_endpoint after the page loop
PdfReturn(r) ==
    /\ loop = r
    /\ pc[r] = "page"
    /\ frame[r].endpoint = "pdf"
    /\ frame[r].page_num = frame[r].images
    /\ ret' = [ret EXCEPT ![r] = Some(pdf_success_response(frame[r]))]
    /\ pc' = [pc EXCEPT ![r] = "ret"]
    /\ UNCHANGED <<MAX_CONCURRENCY, direct, llm, sampling_params, phase, loop, req, batch,
                   frame, resp, inFlight, log>>

\* ---------------------------------------------------- the endpoints return
\* process_image_endpoint or process_pdf_endpoint called by the framework:
\* what it returns is the response
EndpointReturn(r) ==
    /\ loop = r
    /\ pc[r] = "ret"
    /\ req[r].endpoint # "batch"
    /\ resp' = [resp EXCEPT ![r] = ret[r]]
    /\ pc' = [pc EXCEPT ![r] = "send"]
    /\ UNCHANGED <<MAX_CONCURRENCY, direct, llm, sampling_params, phase, loop, req, batch,
                   frame, ret, inFlight, log>>

\* process_batch_endpoint keeping the entries of the files that succeeded
batch_append_successes(b, filename, result) ==
    IF result.success
    THEN [b EXCEPT !.results = Append(@, [filename |-> filename, result |-> result])]
    ELSE b

\* process_batch_endpoint: results.append({filename, result.dict()})
batch_append(b, filename, result) ==
    [b EXCEPT !.results = Append(@, [filename |-> filename, result |-> result])]

\* process_batch_endpoint: the awaited endpoint returned, the entry is
\* appended, and the endpoint of the next file runs to its file.read()
BatchNext(r) ==
    /\ loop = r
    /\ pc[r] = "ret"
    /\ req[r].endpoint = "batch"
    /\ batch[r].i < Len(req[r].files)
    /\ LET file == req[r].files[batch[r].i + 1]
       IN  /\ batch' = [batch EXCEPT ![r] =
                           [batch_append(batch[r], frame[r].filename, ret[r].val)
                               EXCEPT !.i = @ + 1]]
           /\ frame' = [frame EXCEPT ![r] =
                           NewFrame(endpoint_of("batch", file), file,
                                    bound_prompt("batch", req[r].prompt))]
    /\ ret' = [ret EXCEPT ![r] = None]
    /\ log' = [log EXCEPT ![r] = <<>>]
    /\ pc' = [pc EXCEPT ![r] = "read"]
    /\ loop' = 0
    /\ UNCHANGED <<MAX_CONCURRENCY, direct, llm, sampling_params, phase, req, resp, inFlight>>

\* process_batch_endpoint: the last entry is appended and the batch returned
BatchReturn(r) ==
    /\ loop = r
    /\ pc[r] = "ret"
    /\ req[r].endpoint = "batch"
    /\ batch[r].i = Len(req[r].files)
    /\ batch' = [batch EXCEPT ![r] = batch_append(batch[r], frame[r].filename, ret[r].val)]
    /\ resp' = [resp EXCEPT ![r] = Some([success |-> TRUE, results |-> batch'[r].results])]
    /\ pc' = [pc EXCEPT ![r] = "send"]
    /\ UNCHANGED <<MAX_CONCURRENCY, direct, llm, sampling_params, phase, loop, req, frame,
                   ret, inFlight, log>>

\* the response is sent: the handler ends and the event loop is free
Send(r) ==
    /\ loop = r
    /\ pc[r] = "send"
    /\ loop' = 0
    /\ pc' = [pc EXCEPT ![r] = "idle"]
    /\ req' = [req EXCEPT ![r] = NoReq]
    /\ batch' = [batch EXCEPT ![r] = NoBatch]
    /\ frame' = [frame EXCEPT ![r] = NoFrame]
    /\ ret' = [ret EXCEPT ![r] = None]
    /\ resp' = [resp EXCEPT ![r] = None]
    /\ log' = [log EXCEPT ![r] = <<>>]
    /\ UNCHANGED <<MAX_CONCURRENCY, direct, llm, sampling_params, phase, inFlight>>

\* ------------------------------------------------------------ specification
\* the steps of process_image_endpoint and process_pdf_endpoint
Endpoint(r) ==
    \/ ReadDone(r)
    \/ ImageDecode(r)
    \/ RasterOpen(r)
    \/ RasterPage(r)
    \/ RasterClose(r)
    \/ PdfAfterRaster(r)
    \/ ProcessSingleImageCall(r)
    \/ GenerateReturn(r)
    \/ PdfReturn(r)
    \/ EndpointReturn(r)
    \/ Send(r)

\* the steps of process_batch_endpoint around the endpoints it awaits
Batch(r) == BatchNext(r) \/ BatchReturn(r)

\* One connection to /ocr/image and /ocr/pdf: the requests are handled one
\* after the other, with every prompt, sampling and file input.
Next == startup_event \/ ReceiveDirect(1) \/ Endpoint(1)

Spec == Init /\ [][Next]_vars

\* One connection to all three endpoints.
NextBatch == startup_event \/ Receive(1) \/ Endpoint(1) \/ Batch(1)

SpecBatch == Init /\ [][NextBatch]_vars

\* NumRequests connections under load, MAX_CONCURRENCY set by the
\* environment: the handlers of the three endpoints interleave at their
\* awaits.
NextConcurrent ==
    startup_event \/ \E r \in Req : (ReceiveLoad(r) \/ Endpoint(r) \/ Batch(r))

SpecConcurrent == InitEnv /\ [][NextConcurrent]_vars

\* One connection to /ocr/batch: uploads of every file list, one after the
\* other, each file meeting every decode and inference outcome.
NextFiles ==
    \/ startup_event
    \/ ReceiveBatch(1)
    \/ ReadDone(1)
    \/ ImageDecode(1)
    \/ RasterOpen(1)
    \/ RasterPage(1)
    \/ RasterClose(1)
    \/ PdfAfterRaster(1)
    \/ ProcessSingleImageCall(1)
    \/ GenerateReturn(1)
    \/ PdfReturn(1)
    \/ Batch(1)
    \/ Send(1)

SpecFiles == Init /\ [][NextFiles]_vars

\* The module imported and its functions called in any order with any
\* arguments, initialize_model meeting any outcome.
NextDirect == InitializeModelCall \/ GetSamplingParamsCall

SpecDirect == Init /\ [][NextDirect]_vars

\* ================================================================ claims
\* process_pdf_endpoint has just returned ret[r].val; its locals and the
\* history of its process_single_image calls are still in place
PdfReturned(r) == pc[r] = "ret" /\ frame[r].endpoint = "pdf"

\* pdf_to_images_high_quality returned the page images
Rasterized(r) == frame[r].doc = "closed"

\* a string with a character that strip() keeps
NonBlank(s) == \E i \in 1..Len(s) : s[i] \notin Whitespace

\* C1: failure isolation in the PDF pipeline. For a document rasterized into
\* N >= 1 pages, process_single_image is called exactly once for every page,
\* in page order (no page is skipped after a failure, none is retried), the
\* engine is entered by each call, and result j has success = true iff the
\* call for page j did not raise.
\* (Refuted under Spec: tokenize_with_images raising, as it does on every
\* call with custom_image_process.py as process.image_process, leaves
\* process_single_image before llm.generate; the other conjuncts hold.)
FailureIsolation ==
    \A r \in Req :
        (PdfReturned(r) /\ Rasterized(r) /\ frame[r].images >= 1) =>
            LET N == frame[r].images
                res == ret[r].val.results
            IN  /\ Len(log[r]) = N
                /\ Len(res) = N
                /\ \A j \in 1..N :
                    /\ log[r][j].page = j - 1
                    /\ log[r][j].invoked
                    /\ res[j].success <=> (log[r][j].status = "returned")

Serialized == inFlight <= 1 /\ (inFlight = 1 <=> \E r \in Req : pc[r] = "generate")

\* C3 as stated: every batch result of the PDF pipeline, on every path, has
\* length(results) = total_pages.
\* (Refuted: the outer exception handler returns one error entry with
\* total_pages = 0.)
ResultsLengthIsTotalPages ==
    \A r \in Req :
        PdfReturned(r) => Len(ret[r].val.results) = ret[r].val.total_pages

\* C3 amended: length(results) = total_pages on every path on which the
\* rasterizer returns (all pages succeed, some fail, no page); when the
\* rasterizer raises, results holds exactly one failed entry and
\* total_pages = 0.
ResultsLengthAmended ==
    \A r \in Req :
        PdfReturned(r) =>
            LET b == ret[r].val
            IN  IF Rasterized(r)
                THEN Len(b.results) = b.total_pages /\ b.total_pages = frame[r].images
                ELSE Len(b.results) = 1 /\ b.total_pages = 0 /\ ~b.results[1].success

\* C3 witness: two pages, one of them failed, two results, total_pages = 2
ResultsLengthWitness ==
    \E r \in Req :
        /\ PdfReturned(r) /\ Rasterized(r)
        /\ ret[r].val.total_pages = 2 /\ Len(ret[r].val.results) = 2
        /\ \E k \in 1..2 : ~ret[r].val.results[k].success
        /\ \E k \in 1..2 : ret[r].val.results[k].success

\* C4 as stated: results[i].index = i for i in 0..N-1, the i-th result
\* carrying the zero-based index of the i-th page (here the k-th entry of the
\* sequence, k = i + 1, and page_count, the one page field of OCRResponse).
\* (Refuted: page_count = page_num + 1.)
IndexZeroBased ==
    \A r \in Req :
        (PdfReturned(r) /\ Rasterized(r)) =>
            \A k \in 1..Len(ret[r].val.results) :
                ret[r].val.results[k].page_count = Some(k - 1)

\* C4 amended: for a document with N pages the batch result has N entries in
\* page order and the i-th (i in 0..N-1) carries the one-based page number
\* i + 1 in page_count, whichever pages fail.
PageNumberOneBased ==
    \A r \in Req :
        (PdfReturned(r) /\ Rasterized(r)) =>
            /\ Len(ret[r].val.results) = frame[r].images
            /\ \A k \in 1..Len(ret[r].val.results) :
                /\ ret[r].val.results[k].page_count = Some(k)
                /\ log[r][k].page + 1 = k

\* C4 witness: the first of two pages failed and each entry has its number
PageNumberWitness ==
    \E r \in Req :
        /\ PdfReturned(r) /\ Rasterized(r) /\ frame[r].images = 2
        /\ ~ret[r].val.results[1].success
        /\ ret[r].val.results[1].page_count = Some(1)
        /\ ret[r].val.results[2].page_count = Some(2)

\* C5: batch success flag. For a document that rasterizes into N >= 1 pages
\* the batch-level success flag is true however many pages fail.
BatchSuccessFlag ==
    \A r \in Req :
        (PdfReturned(r) /\ Rasterized(r) /\ frame[r].images >= 1) => ret[r].val.success

\* C5 witness: both pages of a document failed and the batch succeeded
BatchSuccessWitness ==
    \E r \in Req :
        /\ PdfReturned(r) /\ Rasterized(r) /\ frame[r].images = 2
        /\ \A k \in 1..2 : ~ret[r].val.results[k].success
        /\ ret[r].val.success

\* C6: document decode failure. When the rasterizer raises, the batch result
\* has success = false and total_pages = 0 and stands for no page (no entry
\* with a page number, no successful entry), and no inference call was made
\* for the request; and no inference call of a request starts before the
\* rasterizer has made all its pages and returned.
DecodeFailure ==
    \A r \in Req :
        /\ (PdfReturned(r) /\ ~Rasterized(r)) =>
                LET b == ret[r].val
                IN  /\ ~b.success
                    /\ b.total_pages = 0
                    /\ \A k \in 1..Len(b.results) :
                        b.results[k].page_count.isNone /\ ~b.results[k].success
                    /\ log[r] = <<>>
        /\ (frame[r].endpoint = "pdf" /\ (log[r] # <<>> \/ pc[r] = "generate")) =>
                Rasterized(r) /\ frame[r].images = frame[r].doc_pages

\* C6 witness: the rasterizer raised at the second page of a document
DecodeFailureWitness ==
    \E r \in Req :
        /\ PdfReturned(r) /\ frame[r].doc = "open" /\ frame[r].images = 1
        /\ ~ret[r].val.success /\ ret[r].val.total_pages = 0
        /\ log[r] = <<>>

\* C7: empty document. When the rasterizer returns no page, the pipeline
\* returns success = false, total_pages = 0 and no results, and makes no
\* inference call.
EmptyDocument ==
    \A r \in Req :
        (PdfReturned(r) /\ Rasterized(r) /\ frame[r].images = 0) =>
            /\ ~ret[r].val.success
            /\ ret[r].val.total_pages = 0
            /\ ret[r].val.results = <<>>
            /\ log[r] = <<>>

\* C7 witness: a document without pages was answered
EmptyDocumentWitness ==
    \E r \in Req :
        /\ PdfReturned(r) /\ Rasterized(r) /\ frame[r].doc_pages = 0
        /\ ~ret[r].val.success /\ ret[r].val.results = <<>>

\* C8 as stated: when the inference call of a page fails with message m, the
\* result of the page has success = false and its error is exactly m.
\* (Refuted: the page loop puts "Page <n> error: " before m.)
ErrorMessageVerbatim ==
    \A r \in Req :
        frame[r].endpoint = "pdf" =>
            \A k \in 1..Len(frame[r].results) :
                log[r][k].status = "raised" =>
                    /\ ~frame[r].results[k].success
                    /\ frame[r].results[k].error = Some(log[r][k].msg)

\* C8 amended: when the inference call of page n (counted from one) fails
\* with message m, the result of the page has success = false and its error
\* is "Page n error: " followed by m, unchanged.
ErrorMessagePrefixed ==
    \A r \in Req :
        frame[r].endpoint = "pdf" =>
            \A k \in 1..Len(frame[r].results) :
                log[r][k].status = "raised" =>
                    /\ ~frame[r].results[k].success
                    /\ frame[r].results[k].result.isNone
                    /\ frame[r].results[k].error =
                          Some(<<"P", "a", "g", "e", " ">> \o IntToStr(k)
                                  \o <<" ", "e", "r", "r", "o", "r", ":", " ">>
                                  \o log[r][k].msg)

\* C8 witness: the call for the second page raised "oom"
ErrorMessageWitness ==
    \E r \in Req :
        /\ frame[r].endpoint = "pdf" /\ Len(frame[r].results) = 2
        /\ log[r][2].status = "raised" /\ log[r][2].msg = <<"o", "o", "m">>
        /\ frame[r].results[2].error =
              Some(<<"P", "a", "g", "e", " ", "2", " ", "e", "r", "r", "o", "r", ":", " ",
                     "o", "o", "m">>)

\* C9: document handle release. Once pdf_to_images_high_quality has returned
\* or raised, the document it opened is closed.
\* (Refuted: pdf_document.close() is the last statement of the try body and
\* the finally only unlinks the temporary file, so an exception in the page
\* loop leaves the document open.)
HandleReleased ==
    \A r \in Req :
        (frame[r].endpoint = "pdf" /\ pc[r] \notin {"read", "raster_open", "raster_page"})
            => frame[r].doc # "open"

\* C10: prompt resolution. On every endpoint the prompt passed to inference
\* is the request prompt when it is present and non-blank, and PROMPT when it
\* is absent or blank.
\* (Refuted under SpecBatch: /ocr/batch without a prompt field passes its
\* Form default '<image>' on, which is non-blank and is used.)
PromptResolution ==
    \A r \in Req :
        \A k \in 1..Len(log[r]) :
            log[r][k].prompt =
                IF ~req[r].prompt.isNone /\ NonBlank(req[r].prompt.val)
                THEN req[r].prompt.val
                ELSE PROMPT


\* get_sampling_params was called from outside and returned direct.result.val
Resolved == direct.fn = "get_sampling_params" /\ ~direct.result.isNone

\* the value asked for: the argument if supplied, else the base's value
Supplied(arg, base_value) == IF arg.isNone THEN base_value ELSE arg.val

\* x brought into [lo, hi]
ClampTo(lo, hi, x) == IF x < lo THEN lo ELSE IF x > hi THEN hi ELSE x

\* C11: whatever arguments get_sampling_params is given, supplied or left
\* out, inside or outside the ranges, it returns once a base exists, and the
\* configuration it returns has temperature = clamp to [0.0, 2.0], top_p =
\* clamp to [0.0, 1.0] and max_tokens = clamp to [1, 8192] of the argument if
\* supplied, else of the base's value.
\* (Refuted under SpecDirect: a top_p argument of 0.0 or less is clamped to
\* 0.0 and passed to SamplingParams(...), which raises "top_p must be in
\* (0, 1], got 0.0."; the call returns no configuration. The configurations
\* that are returned carry the clamped values.)
SamplingClamp ==
    direct.fn = "get_sampling_params" =>
        /\ ~sampling_params.isNone => Resolved /\ direct.raised.isNone
        /\ Resolved =>
             LET base == sampling_params.val
                 a == direct.args
                 res == direct.result.val
             IN  /\ res.temperature = ClampTo(0, 200, Supplied(a.temperature, base.temperature))
                 /\ res.top_p = ClampTo(0, 100, Supplied(a.top_p, base.top_p))
                 /\ res.max_tokens = ClampTo(1, 8192, Supplied(a.max_tokens, base.max_tokens))

\* C12: the base configuration, once set, keeps every field it was built
\* with through all get_sampling_params calls; a call whose clamped triple
\* equals the base's triple returns the base object itself; every other
\* call returns an object with the base's stop, skip_special_tokens,
\* include_stop_str_in_output and logits_processors.
BaseNeverMutated ==
    /\ ~sampling_params.isNone => sampling_params.val = BaseSamplingParams
    /\ Resolved =>
         LET base == sampling_params.val
             a == direct.args
             res == direct.result.val
             same_triple ==
                 /\ ClampTo(0, 200, Supplied(a.temperature, base.temperature)) = base.temperature
                 /\ ClampTo(0, 100, Supplied(a.top_p, base.top_p)) = base.top_p
                 /\ ClampTo(1, 8192, Supplied(a.max_tokens, base.max_tokens)) = base.max_tokens
         IN  /\ same_triple => res.obj = "base" /\ res = base
             /\ res.stop = base.stop
             /\ res.skip_special_tokens = base.skip_special_tokens
             /\ res.include_stop_str_in_output = base.include_stop_str_in_output
             /\ res.logits_processors = base.logits_processors

\* a call overriding the temperature alone returned a new object and the
\* base is as it was built
BaseNeverMutatedWitness ==
    /\ Resolved
    /\ direct.args = [temperature |-> Some(150), top_p |-> None, max_tokens |-> None]
    /\ direct.result.val.obj = "new"
    /\ direct.result.val.temperature = 150
    /\ direct.result.val.logits_processors = BaseSamplingParams.logits_processors
    /\ sampling_params = Some(BaseSamplingParams)


\* C13: in every state the engine handle being set implies that the base
\* sampling configuration is set, so that no get_sampling_params call finds
\* the base None after its initialization step.
InitializationInvariant ==
    /\ ~llm.isNone => ~sampling_params.isNone
    /\ direct.fn = "get_sampling_params" =>
            direct.raised # Some(NoneTypeMsg(none_base_attribute(
                                  direct.args.temperature, direct.args.top_p,
                                  direct.args.max_tokens)))


\* the endpoint awaited by process_batch_endpoint for the current file has
\* just returned ret[r].val; its locals and its call history are in place
BatchFileReturned(r) == req[r].endpoint = "batch" /\ pc[r] = "ret" /\ loop = r

\* the current file could not be decoded: Image.open or the rasterizer raised
FileDecodeFailed(r) ==
    IF frame[r].endpoint = "pdf" THEN ~Rasterized(r) ELSE log[r] = <<>>

\* an inference call made for the current file raised
FileInferenceFailed(r) == \E k \in 1..Len(log[r]) : log[r][k].status = "raised"

\* the batch holds one entry for each file handled so far, in upload order,
\* and the response holds them all under success = true
OneEntryPerFile ==
    \A r \in Req :
        req[r].endpoint = "batch" =>
            LET files == req[r].files
                entries == batch[r].results
            IN  /\ batch[r].i \in 1..Len(files)
                /\ frame[r].filename = files[batch[r].i]
                /\ Len(entries) = IF pc[r] = "send" THEN Len(files) ELSE batch[r].i - 1
                /\ \A k \in 1..Len(entries) : entries[k].filename = files[k]
                /\ pc[r] = "send" =>
                        /\ resp[r].val.success
                        /\ resp[r].val.results = entries

\* what the awaited endpoint returned becomes the entry of its file, and
\* whatever it returned the next file is started, or the batch returned
NextFileProcessed ==
    \A r \in Req :
        BatchFileReturned(r) =>
            /\ batch'[r].results =
                   Append(batch[r].results,
                          [filename |-> frame[r].filename, result |-> ret[r].val])
            /\ IF batch[r].i < Len(req[r].files)
               THEN /\ pc'[r] = "read"
                    /\ batch'[r].i = batch[r].i + 1
                    /\ frame'[r].filename = req[r].files[batch[r].i + 1]
               ELSE pc'[r] = "send"

\* a file whose decoding or inference failed is returned with success = false
FailedFileFlagged ==
    \A r \in Req :
        (BatchFileReturned(r) /\ (FileDecodeFailed(r) \/ FileInferenceFailed(r))) =>
            ~ret[r].val.success

\* an image is returned with success = false exactly when its decoding or
\* its inference failed; a document with success = false exactly when it
\* could not be decoded or has no page, and a document whose page inference
\* failed with success = true and success = false in that page's result
FailedFileFlaggedByKind ==
    \A r \in Req :
        BatchFileReturned(r) =>
            IF frame[r].endpoint = "pdf"
            THEN /\ ~ret[r].val.success <=> (FileDecodeFailed(r) \/ frame[r].images = 0)
                 /\ ret[r].val.success =>
                        /\ Len(ret[r].val.results) = Len(log[r])
                        /\ \A k \in 1..Len(log[r]) :
                             ~ret[r].val.results[k].success <=> log[r][k].status = "raised"
            ELSE ~ret[r].val.success <=> (FileDecodeFailed(r) \/ FileInferenceFailed(r))

\* C14 as claimed: the batch endpoint returns one entry per file in upload
\* order under success = true, a file whose decoding or inference failed
\* has success = false in its entry, and the later files are processed
\* whatever a file returned.
BatchIsolationAsClaimed ==
    /\ [](OneEntryPerFile /\ FailedFileFlagged)
    /\ [][NextFileProcessed]_vars

\* C14: the batch endpoint returns one entry per file in upload order under
\* success = true, and the later files are processed whatever a file
\* returned; the entry of an image whose decoding or inference failed, and
\* of a document that could not be decoded or has no page, has success =
\* false; the entry of a document whose page inference failed has success =
\* true and success = false in the result of that page.
BatchIsolation ==
    /\ [](OneEntryPerFile /\ FailedFileFlaggedByKind)
    /\ [][NextFileProcessed]_vars

\* a batch of two files is returned: the first failed, the second succeeded
BatchIsolationWitness ==
    \E r \in Req :
        /\ req[r].endpoint = "batch" /\ pc[r] = "send"
        /\ Len(req[r].files) = 2
        /\ resp[r].val.success
        /\ Len(resp[r].val.results) = 2
        /\ ~resp[r].val.results[1].result.success
        /\ resp[r].val.results[2].result.success

====
